---- MODULE Spec2Model ----
(***************************************************************************)
(* The CEPAC .in codec: the default parameter tree (ui/param_schema.py),   *)
(* the encoder InputGenerator (ui/input_generator.py) and the decoder      *)
(* InputParser (ui/input_parser.py).                                       *)
(*                                                                         *)
(* Text is a TLA+ string; a character is a string of length 1.  Python     *)
(* values are tagged records (bool, int, float, str, list) so that the     *)
(* isinstance dispatch of the decoder and of _fmt can be followed.  A      *)
(* finite float is the decimal m * 10^e with e <= 0, normalised; inf, -inf *)
(* and nan are separate kinds.  Numbers stay below 10^9 in magnitude.      *)
(*                                                                         *)
(* The tree holds the sections runspecs, output and cohort in full and the *)
(* four fields of treatment that KEYWORD_MAP names; no other field is read *)
(* by the encoder or written by the decoder.  The encoder is modelled up   *)
(* to the end of _gen_cohort: every later line of generate() is a literal  *)
(* that does not depend on the tree.                                       *)
(***************************************************************************)
EXTENDS Integers, Sequences, FiniteSets, TLC

----------------------------------------------------------------------------
(* Python str operations *)

Ch(s, i) == SubSeq(s, i, i)

\* str.startswith
StartsWith(s, p) == Len(p) <= Len(s) /\ SubSeq(s, 1, Len(p)) = p

\* `sub in s`
Contains(s, sub) ==
    \E i \in 1..(Len(s) - Len(sub) + 1) : SubSeq(s, i, i + Len(sub) - 1) = sub

\* s.index(sub), 1-based; used only when Contains(s, sub)
IndexOf(s, sub) ==
    CHOOSE i \in 1..(Len(s) - Len(sub) + 1) :
        /\ SubSeq(s, i, i + Len(sub) - 1) = sub
        /\ \A j \in 1..(i - 1) : SubSeq(s, j, j + Len(sub) - 1) # sub

\* the pieces of s[lo..hi] between the characters of seps (empty pieces kept)
RECURSIVE SplitRange(_, _, _, _)
SplitRange(s, seps, lo, hi) ==
    IF lo > hi THEN << "" >>
    ELSE IF lo = hi THEN (IF Ch(s, lo) \in seps THEN << "", "" >> ELSE << Ch(s, lo) >>)
    ELSE LET mid == (lo + hi) \div 2
             A == SplitRange(s, seps, lo, mid)
             B == SplitRange(s, seps, mid + 1, hi)
         IN  SubSeq(A, 1, Len(A) - 1) \o << A[Len(A)] \o B[1] >> \o Tail(B)

\* s.split('\n')
SplitLines(s) == SplitRange(s, {"\n"}, 1, Len(s))

\* the characters str.split() treats as separators
\* the separators of s.split(' ') in place of those of s.split()
Whitespace_SpaceOnly == {" "}

Whitespace == {" ", "\t", "\n", "\r", "\f"}

\* s.split(): runs of whitespace separate, no empty piece is returned
SplitWhitespace(s) ==
    LET NonEmpty(x) == x # ""
    IN  SelectSeq(SplitRange(s, Whitespace, 1, Len(s)), NonEmpty)

\* sep.join(parts[lo..hi])
RECURSIVE JoinRange(_, _, _, _)
JoinRange(parts, sep, lo, hi) ==
    IF lo > hi THEN ""
    ELSE IF lo = hi THEN parts[lo]
    ELSE LET mid == (lo + hi) \div 2
         IN  JoinRange(parts, sep, lo, mid) \o sep \o JoinRange(parts, sep, mid + 1, hi)

Join(parts, sep) == JoinRange(parts, sep, 1, Len(parts))

UpperToLower ==
    ("A" :> "a") @@ ("B" :> "b") @@ ("C" :> "c") @@ ("D" :> "d") @@ ("E" :> "e") @@
    ("F" :> "f") @@ ("G" :> "g") @@ ("H" :> "h") @@ ("I" :> "i") @@ ("J" :> "j") @@
    ("K" :> "k") @@ ("L" :> "l") @@ ("M" :> "m") @@ ("N" :> "n") @@ ("O" :> "o") @@
    ("P" :> "p") @@ ("Q" :> "q") @@ ("R" :> "r") @@ ("S" :> "s") @@ ("T" :> "t") @@
    ("U" :> "u") @@ ("V" :> "v") @@ ("W" :> "w") @@ ("X" :> "x") @@ ("Y" :> "y") @@
    ("Z" :> "z")

\* str.lower
RECURSIVE Lower(_)
Lower(s) ==
    IF s = "" THEN ""
    ELSE (IF Head(s) \in DOMAIN UpperToLower THEN UpperToLower[Head(s)] ELSE Head(s))
         \o Lower(Tail(s))

----------------------------------------------------------------------------
(* Python values *)

PyBool(x) == [t |-> "bool", b |-> x]
PyInt(x) == [t |-> "int", i |-> x]
PyStr(x) == [t |-> "str", s |-> x]
PyList(x) == [t |-> "list", l |-> x]
PyFloatRaw(kind, m, e) == [t |-> "float", k |-> kind, m |-> m, e |-> e]

RECURSIVE Pow10(_)
Pow10(n) == IF n <= 0 THEN 1 ELSE 10 * Pow10(n - 1)

Abs(n) == IF n < 0 THEN -n ELSE n

\* the normal form of m * 10^e: e <= 0 and no trailing zero in m when e < 0
RECURSIVE Normalise(_, _)
Normalise(m, e) ==
    IF m = 0 THEN << 0, 0 >>
    ELSE IF e > 0 THEN Normalise(m * 10, e - 1)
    ELSE IF e < 0 /\ m % 10 = 0 THEN Normalise(m \div 10, e + 1)
    ELSE << m, e >>

\* the float m * 10^e
PyFloat(m, e) == LET n == Normalise(m, e) IN PyFloatRaw("fin", n[1], n[2])
PyInf == PyFloatRaw("inf", 0, 0)
PyNegInf == PyFloatRaw("ninf", 0, 0)
PyNaN == PyFloatRaw("nan", 0, 0)

\* [v] * n
Rep(v, n) == [j \in 1..n |-> v]

Digits == {"0", "1", "2", "3", "4", "5", "6", "7", "8", "9"}
DigitVal ==
    ("0" :> 0) @@ ("1" :> 1) @@ ("2" :> 2) @@ ("3" :> 3) @@ ("4" :> 4) @@
    ("5" :> 5) @@ ("6" :> 6) @@ ("7" :> 7) @@ ("8" :> 8) @@ ("9" :> 9)
DigitChar == << "0", "1", "2", "3", "4", "5", "6", "7", "8", "9" >>

AllDigits(s) == s # "" /\ \A i \in 1..Len(s) : Ch(s, i) \in Digits

\* the value of a digit string
RECURSIVE DigitsVal(_)
DigitsVal(s) ==
    IF s = "" THEN 0 ELSE 10 * DigitsVal(SubSeq(s, 1, Len(s) - 1)) + DigitVal[Ch(s, Len(s))]

\* the decimal digits of n >= 0
RECURSIVE NatStr(_)
NatStr(n) == IF n < 10 THEN DigitChar[n + 1] ELSE NatStr(n \div 10) \o DigitChar[(n % 10) + 1]

\* str(n) of an int
IntStr(n) == IF n < 0 THEN "-" \o NatStr(-n) ELSE NatStr(n)

NumDigits(n) == Len(NatStr(n))

\* n >= 0 written with exactly w digits
RECURSIVE ZeroPad(_, _)
ZeroPad(n, w) == IF w <= 0 THEN "" ELSE ZeroPad(n \div 10, w - 1) \o DigitChar[(n % 10) + 1]

HasSign(s) == s # "" /\ Head(s) \in {"+", "-"}
Unsigned(s) == IF HasSign(s) THEN Tail(s) ELSE s
SignOf(s) == IF s # "" /\ Head(s) = "-" THEN -1 ELSE 1

----------------------------------------------------------------------------
(* Python number conversions: int(str), float(str), int(float), and the    *)
(* float formatting of _fmt                                                *)

\* int(token): an optional sign and decimal digits, else ValueError
IsIntLiteral(tok) == AllDigits(Unsigned(tok))
IntLiteralVal(tok) == SignOf(tok) * DigitsVal(Unsigned(tok))

\* the part of s before / after the first occurrence of the character c
Before(s, c) == IF Contains(s, c) THEN SubSeq(s, 1, IndexOf(s, c) - 1) ELSE s
After(s, c) == IF Contains(s, c) THEN SubSeq(s, IndexOf(s, c) + 1, Len(s)) ELSE ""

\* float(token): [sign] (inf | infinity | nan), or
\* [sign] (digits [. [digits]] | . digits) [e [sign] digits]; else ValueError
FloatMantissa(tok) == Before(Lower(Unsigned(tok)), "e")
FloatExponent(tok) == After(Lower(Unsigned(tok)), "e")
FloatIntPart(tok) == Before(FloatMantissa(tok), ".")
FloatFracPart(tok) == After(FloatMantissa(tok), ".")

IsFloatLiteral(tok) ==
    LET low == Lower(Unsigned(tok))
        ip == FloatIntPart(tok)
        fp == FloatFracPart(tok)
    IN  \/ low \in {"inf", "infinity", "nan"}
        \/ /\ IF Contains(FloatMantissa(tok), ".")
                 THEN /\ ip = "" \/ AllDigits(ip)
                      /\ fp = "" \/ AllDigits(fp)
                      /\ ip # "" \/ fp # ""
                 ELSE AllDigits(ip)
           /\ Contains(low, "e") => IsIntLiteral(FloatExponent(tok))

FloatLiteralVal(tok) ==
    LET low == Lower(Unsigned(tok))
        digs == FloatIntPart(tok) \o FloatFracPart(tok)
        ex == IF Contains(low, "e") THEN IntLiteralVal(FloatExponent(tok)) ELSE 0
    IN  IF low \in {"inf", "infinity"} THEN (IF SignOf(tok) < 0 THEN PyNegInf ELSE PyInf)
        ELSE IF low = "nan" THEN PyNaN
        ELSE PyFloat(SignOf(tok) * DigitsVal(digs), ex - Len(FloatFracPart(tok)))

\* int(f) of a finite float: truncation toward zero
TruncFloat(f) ==
    IF f.m < 0 THEN -((-f.m) \div Pow10(-f.e)) ELSE f.m \div Pow10(-f.e)

\* f is finite and f == int(f)
IsIntegral(f) == f.k = "fin" /\ f.e = 0

RECURSIVE StripZeros(_)
StripZeros(n) == IF n # 0 /\ n % 10 = 0 THEN StripZeros(n \div 10) ELSE n

\* '%.6g' of the positive decimal with significant digits d (no trailing
\* zero) whose leading digit has decimal exponent x
FormatSig(d, x) ==
    LET ds == NatStr(d)
        nd == Len(ds)
    IN  IF x < -4 \/ x >= 6
        THEN Ch(ds, 1) \o (IF nd > 1 THEN "." \o SubSeq(ds, 2, nd) ELSE "")
             \o "e" \o (IF x < 0 THEN "-" ELSE "+") \o ZeroPad(Abs(x), 2)
        ELSE IF x >= nd - 1 THEN ds \o ZeroPad(0, x - nd + 1)
        ELSE IF x >= 0 THEN SubSeq(ds, 1, x + 1) \o "." \o SubSeq(ds, x + 2, nd)
        ELSE "0." \o ZeroPad(0, -x - 1) \o ds

\* f"{v:.6g}" of a finite float: six significant digits, ties to even
FormatG6(f) ==
    LET a == Abs(f.m)
        k == NumDigits(a)
        x0 == k + f.e - 1
        drop == k - 6
        q0 == a \div Pow10(drop)
        r == a % Pow10(drop)
        half == 5 * Pow10(drop - 1)
        q1 == IF k <= 6 THEN a
              ELSE IF r > half \/ (r = half /\ q0 % 2 = 1) THEN q0 + 1 ELSE q0
        carry == k > 6 /\ q1 = 1000000
    IN  (IF f.m < 0 THEN "-" ELSE "")
        \o FormatSig(StripZeros(q1), IF carry THEN x0 + 1 ELSE x0)

----------------------------------------------------------------------------
(* ui/param_schema.py: size constants and the default tree *)

SCHEMA_GENDER_NUM == 2
SCHEMA_RISK_FACT_NUM == 5
SCHEMA_CD4_NUM_STRATA == 6
SCHEMA_HVL_NUM_STRATA == 7
SCHEMA_OI_NUM == 15
SCHEMA_INIT_AGE_NUM_STRATA == 30
SCHEMA_TRANSM_RISK_NUM == 3
SCHEMA_TRANSM_RISK_AGE_NUM == 7
SCHEMA_MAX_NUM_SUBCOHORTS == 25

\* [f'{prefix}{i+1}' for i in range(n)]
NumberedNames(prefix, n) == PyList([j \in 1..n |-> PyStr(prefix \o IntStr(j))])

create_runspecs_defaults ==
    [ runSetName |-> PyStr("DefaultRunSet"),
      runName |-> PyStr("run1"),
      numCohorts |-> PyInt(10000),
      discountFactor |-> PyFloat(3, -2),
      maxPatientCD4 |-> PyFloat(2000, 0),
      monthRecordARTEfficacy |-> PyList(<< PyInt(6), PyInt(12), PyInt(24) >>),
      randomSeedByTime |-> PyBool(TRUE),
      userProgramLocale |-> PyStr("en_US"),
      inputVersion |-> PyStr("20210615"),
      modelVersion |-> PyStr("50d"),
      OIsIncludeTB |-> PyBool(FALSE),
      OINames |-> NumberedNames("OI_", SCHEMA_OI_NUM),
      OIsFractionOfBenefit |-> PyList(Rep(PyFloat(1, 0), SCHEMA_OI_NUM)),
      severeOIs |-> PyList(Rep(PyBool(FALSE), SCHEMA_OI_NUM)),
      CD4StrataUpperBounds |->
          PyList(<< PyFloat(50, 0), PyFloat(100, 0), PyFloat(200, 0),
                    PyFloat(350, 0), PyFloat(500, 0) >>),
      longitLoggingLevel |-> PyInt(0),
      firstOIsLongitLogging |-> PyList(Rep(PyInt(0), SCHEMA_OI_NUM)),
      enableOIHistoryLogging |-> PyBool(FALSE),
      numARTFailuresForOIHistoryLogging |-> PyInt(0),
      CD4BoundsForOIHistoryLogging |-> PyList(<< PyFloat(0, 0), PyFloat(2000, 0) >>),
      HVLBoundsForOIHistoryLogging |-> PyList(<< PyInt(0), PyInt(6) >>),
      OIsToExcludeOIHistoryLogging |-> PyList(Rep(PyBool(FALSE), SCHEMA_OI_NUM)),
      enableMultipleDiscountRates |-> PyBool(FALSE),
      multDiscountRatesCost |->
          PyList(<< PyFloat(0, 0), PyFloat(3, -2), PyFloat(5, -2), PyFloat(7, -2) >>),
      multDiscountRatesBenefit |->
          PyList(<< PyFloat(0, 0), PyFloat(3, -2), PyFloat(5, -2), PyFloat(7, -2) >>) ]

create_output_defaults ==
    [ traceNumSelection |-> PyInt(100),
      enableSubCohorts |-> PyBool(FALSE),
      subCohorts |-> PyList(Rep(PyInt(0), SCHEMA_MAX_NUM_SUBCOHORTS)),
      enableDetailedCostOutputs |-> PyBool(FALSE) ]

\* [[0.0] * HVL_NUM_STRATA for _ in range(CD4_NUM_STRATA)]
ZeroCD4ByHVL ==
    PyList(Rep(PyList(Rep(PyFloat(0, 0), SCHEMA_HVL_NUM_STRATA)), SCHEMA_CD4_NUM_STRATA))

\* 1.0/3, held to six significant digits; no codec operation reads or writes it
OneThird == PyFloat(333333, -6)

create_cohort_defaults ==
    [ initialCD4Mean |-> PyFloat(500, 0),
      initialCD4StdDev |-> PyFloat(200, 0),
      enableSquareRootTransform |-> PyBool(TRUE),
      initialHVLDistribution |-> ZeroCD4ByHVL,
      initialAgeMean |-> PyFloat(360, 0),
      initialAgeStdDev |-> PyFloat(120, 0),
      useCustomAgeDist |-> PyBool(FALSE),
      ageStrata |-> PyList(Rep(PyFloat(0, 0), 2 * SCHEMA_INIT_AGE_NUM_STRATA)),
      ageProbs |-> PyList(Rep(PyFloat(0, 0), SCHEMA_INIT_AGE_NUM_STRATA)),
      maleGenderDistribution |-> PyFloat(5, -1),
      OIProphNonComplianceRisk |-> PyFloat(0, 0),
      OIProphNonComplianceDegree |-> PyFloat(0, 0),
      clinicVisitTypeDistribution |-> PyList(<< PyFloat(0, 0), PyFloat(0, 0), PyFloat(1, 0) >>),
      therapyImplementationDistribution |->
          PyList(<< PyFloat(0, 0), PyFloat(0, 0), PyFloat(1, 0) >>),
      CD4ResponseTypeOnARTDistribution |-> PyList(Rep(PyFloat(25, -2), 4)),
      probOIHistoryAtEntry |->
          PyList(Rep(PyList(Rep(PyList(Rep(PyFloat(0, 0), SCHEMA_OI_NUM)),
                                SCHEMA_HVL_NUM_STRATA)),
                     SCHEMA_CD4_NUM_STRATA)),
      probRiskFactorPrev |-> PyList(Rep(PyFloat(0, 0), SCHEMA_RISK_FACT_NUM)),
      probRiskFactorIncid |-> PyList(Rep(PyFloat(0, 0), SCHEMA_RISK_FACT_NUM)),
      riskFactorNames |-> NumberedNames("Risk_", SCHEMA_RISK_FACT_NUM),
      showTransmissionOutput |-> PyBool(FALSE),
      transmRateOnART |-> ZeroCD4ByHVL,
      transmRateOnARTAcute |-> PyList(Rep(PyFloat(0, 0), SCHEMA_CD4_NUM_STRATA)),
      transmRateOffART |-> ZeroCD4ByHVL,
      transmRateOffARTAcute |-> PyList(Rep(PyFloat(0, 0), SCHEMA_CD4_NUM_STRATA)),
      transmUseHIVTestAcuteDefinition |-> PyBool(FALSE),
      transmAcuteDuration |-> PyInt(3),
      transmRateMultInterval |-> PyList(<< PyInt(12), PyInt(24) >>),
      transmRateMult |-> PyList(Rep(PyFloat(1, 0), 3)),
      transmRiskDistrib |->
          PyList(Rep(PyList(Rep(PyList(Rep(OneThird, SCHEMA_TRANSM_RISK_NUM)),
                                SCHEMA_TRANSM_RISK_AGE_NUM)),
                     SCHEMA_GENDER_NUM)),
      transmRiskMultBounds |-> PyList(<< PyInt(12), PyInt(24) >>),
      transmRiskMult |-> PyList(Rep(PyList(Rep(PyFloat(1, 0), 3)), SCHEMA_TRANSM_RISK_NUM)),
      useDynamicTransm |-> PyBool(FALSE),
      dynamicTransmHRGTransmissions |-> PyFloat(0, 0),
      dynamicTransmPropHRGAttributable |-> PyFloat(0, 0),
      dynamicTransmNumHIVPosHRG |-> PyFloat(0, 0),
      dynamicTransmNumHIVNegHRG |-> PyFloat(0, 0),
      dynamicTransmWarmupSize |-> PyInt(0),
      keepPrEPAfterWarmup |-> PyBool(FALSE),
      usePrEPDuringWarmup |-> PyBool(FALSE),
      useTransmEndLifeHVLAdjustment |-> PyBool(FALSE),
      transmEndLifeHVLAdjustmentCD4Threshold |-> PyFloat(0, 0),
      transmEndLifeHVLAdjustmentARTLineThreshold |-> PyInt(0) ]

\* the fields of the treatment section that KEYWORD_MAP names
create_treatment_defaults ==
    [ clinicVisitInterval |-> PyInt(3),
      probDetectOIAtEntry |-> PyList(Rep(PyFloat(0, 0), SCHEMA_OI_NUM)),
      probDetectOISinceLastVisit |-> PyList(Rep(PyFloat(0, 0), SCHEMA_OI_NUM)),
      probSwitchSecondaryProph |-> PyList(Rep(PyFloat(0, 0), SCHEMA_OI_NUM)) ]

\* how each list level whose elements are lists is built in create_cohort_defaults
\* (runspecs, output and the four treatment fields hold no list of lists):
\* "comprehension" evaluates the element expression once per element,
\* "repetition" ([x] * n) would put the one object x at every index
RowConstructor_RepeatedRows ==
    [ initialHVLDistribution |-> << "repetition" >>,
      probOIHistoryAtEntry |-> << "comprehension", "comprehension" >>,
      transmRateOnART |-> << "comprehension" >>,
      transmRateOffART |-> << "comprehension" >>,
      transmRiskDistrib |-> << "comprehension", "comprehension" >>,
      transmRiskMult |-> << "comprehension" >> ]

RowConstructor ==
    [ initialHVLDistribution |-> << "comprehension" >>,
      probOIHistoryAtEntry |-> << "comprehension", "comprehension" >>,
      transmRateOnART |-> << "comprehension" >>,
      transmRateOffART |-> << "comprehension" >>,
      transmRiskDistrib |-> << "comprehension", "comprehension" >>,
      transmRiskMult |-> << "comprehension" >> ]

\* the keys of the dict create_default_params() builds, in insertion order;
\* the 'tabs' list of get_param_metadata() has the same ids in the same order
SchemaSections ==
    << "runspecs", "output", "cohort", "treatment", "ltfu", "heterogeneity", "sti",
       "prophs", "arts", "nathist", "chrms", "costs", "tb", "qol", "hivtest", "peds",
       "pedsprophs", "pedsarts", "pedscosts", "eid", "adolescent", "adolescentarts" >>

create_default_params ==
    [ runspecs |-> create_runspecs_defaults,
      output |-> create_output_defaults,
      cohort |-> create_cohort_defaults,
      treatment |-> create_treatment_defaults ]

\* the object at a position of the tree returned by call number `call` of
\* create_default_params; a position is << section >>, << section, field >> or
\* << section, field, i, ... >> (a row of a nested list). Every dict and list
\* expression is evaluated inside the function bodies, once per call; the
\* elements of a level built by repetition are one object
ObjectAt(call, position) ==
    << call >> \o
    [k \in 1..Len(position) |->
        IF k > 2 /\ RowConstructor[position[2]][k - 2] = "repetition"
        THEN 0 ELSE position[k]]

KEYWORD_MAP ==
    ("Runset" :> << "runspecs", "runSetName" >>) @@
    ("CohortSize" :> << "runspecs", "numCohorts" >>) @@
    ("DiscFactor" :> << "runspecs", "discountFactor" >>) @@
    ("MaxPatCD4" :> << "runspecs", "maxPatientCD4" >>) @@
    ("MthRecARTEffA" :> << "runspecs", "monthRecordARTEfficacy[0]" >>) @@
    ("MthRecARTEffB" :> << "runspecs", "monthRecordARTEfficacy[1]" >>) @@
    ("MthRecARTEffC" :> << "runspecs", "monthRecordARTEfficacy[2]" >>) @@
    ("RandSeedByTime" :> << "runspecs", "randomSeedByTime" >>) @@
    ("UserLocale" :> << "runspecs", "userProgramLocale" >>) @@
    ("InpVer" :> << "runspecs", "inputVersion" >>) @@
    ("ModelVer" :> << "runspecs", "modelVersion" >>) @@
    ("IncludeTB_AsOI" :> << "runspecs", "OIsIncludeTB" >>) @@
    ("OIstrs" :> << "runspecs", "OINames" >>) @@
    ("LongitLogCohort" :> << "runspecs", "longitLoggingLevel" >>) @@
    ("LongitLogFirstOIs" :> << "runspecs", "firstOIsLongitLogging" >>) @@
    ("LogPriorOIHistProb" :> << "runspecs", "enableOIHistoryLogging" >>) @@
    ("LogOIHistwithARTfails" :> << "runspecs", "numARTFailuresForOIHistoryLogging" >>) @@
    ("LogOIHistwithCD4" :> << "runspecs", "CD4BoundsForOIHistoryLogging" >>) @@
    ("LogOIHistwithHVL" :> << "runspecs", "HVLBoundsForOIHistoryLogging" >>) @@
    ("LogOIHistExcludeOITypes" :> << "runspecs", "OIsToExcludeOIHistoryLogging" >>) @@
    ("FOB_OIs" :> << "runspecs", "OIsFractionOfBenefit" >>) @@
    ("Severe_OIs" :> << "runspecs", "severeOIs" >>) @@
    ("CD4Bounds" :> << "runspecs", "CD4StrataUpperBounds" >>) @@
    ("EnableMultDiscountOutput" :> << "runspecs", "enableMultipleDiscountRates" >>) @@
    ("DiscountRatesCost" :> << "runspecs", "multDiscountRatesCost" >>) @@
    ("DiscountRatesBenefit" :> << "runspecs", "multDiscountRatesBenefit" >>) @@
    ("NumPatientsToTrace" :> << "output", "traceNumSelection" >>) @@
    ("EnableSubCohorts" :> << "output", "enableSubCohorts" >>) @@
    ("SubCohortValues" :> << "output", "subCohorts" >>) @@
    ("EnableDetailedCosts" :> << "output", "enableDetailedCostOutputs" >>) @@
    ("InitCD4" :> << "cohort", "initialCD4" >>) @@
    ("UseSqRtTransform" :> << "cohort", "enableSquareRootTransform" >>) @@
    ("InitHVL" :> << "cohort", "initialHVLDistribution" >>) @@
    ("InitAge" :> << "cohort", "initialAge" >>) @@
    ("InitAgeCustomDist" :> << "cohort", "useCustomAgeDist" >>) @@
    ("AgeStratMins" :> << "cohort", "ageStrata" >>) @@
    ("AgeStratMaxes" :> << "cohort", "ageStrata" >>) @@
    ("AgeStratProbs" :> << "cohort", "ageProbs" >>) @@
    ("InitGender" :> << "cohort", "maleGenderDistribution" >>) @@
    ("ProphNonCompliance" :> << "cohort", "OIProphNonCompliance" >>) @@
    ("PatClinicTypes" :> << "cohort", "clinicVisitTypeDistribution" >>) @@
    ("PatTreatmentTypes" :> << "cohort", "therapyImplementationDistribution" >>) @@
    ("PatCD4ResponeTypeOnART" :> << "cohort", "CD4ResponseTypeOnARTDistribution" >>) @@
    ("PriorOIHistAtEntry" :> << "cohort", "probOIHistoryAtEntry" >>) @@
    ("ProbRiskFactorPrev" :> << "cohort", "probRiskFactorPrev" >>) @@
    ("ProbRiskFactorIncid" :> << "cohort", "probRiskFactorIncid" >>) @@
    ("GenRiskFactorStrs" :> << "cohort", "riskFactorNames" >>) @@
    ("IntvlClinicVisit" :> << "treatment", "clinicVisitInterval" >>) @@
    ("ProbDetOI_Entry" :> << "treatment", "probDetectOIAtEntry" >>) @@
    ("ProbDetOI_LastVst" :> << "treatment", "probDetectOISinceLastVisit" >>) @@
    ("ProbSwitchSecProph" :> << "treatment", "probSwitchSecondaryProph" >>)

----------------------------------------------------------------------------
(* ui/input_generator.py: InputGenerator *)

CD4_STRATA_STRS == << "CD4vlo", "CD4_lo", "CD4mlo", "CD4mhi", "CD4_hi", "CD4vhi" >>
HVL_STRATA_STRS == << "HVLvlo", "HVL_lo", "HVLmlo", "HVLmed", "HVLmhi", "HVL_hi", "HVLvhi" >>
TRANSM_RISK_STRS == << "MSM", "IDU", "Other" >>
OI_NUM == 15
RISK_FACT_NUM == 5
INIT_AGE_NUM_STRATA == 30
TRANSM_RISK_AGE_NUM == 7
CD4_NUM_STRATA == 6

\* list(reversed(seq))
Reversed(seq) == [j \in 1..Len(seq) |-> seq[Len(seq) + 1 - j]]

CD4_STRATA_REV == Reversed(CD4_STRATA_STRS)
HVL_STRATA_REV == Reversed(HVL_STRATA_STRS)

\* the concatenation of a sequence of sequences
RECURSIVE FlattenRange(_, _, _)
FlattenRange(seqs, lo, hi) ==
    IF lo > hi THEN << >>
    ELSE IF lo = hi THEN seqs[lo]
    ELSE LET mid == (lo + hi) \div 2
         IN  FlattenRange(seqs, lo, mid) \o FlattenRange(seqs, mid + 1, hi)

Flatten(seqs) == FlattenRange(seqs, 1, Len(seqs))

\* _fmt raises on v: int(v) of an infinite float or of nan
FmtRaises(v) == v.t = "float" /\ v.k # "fin"
FmtException(v) == IF v.k = "nan" THEN "ValueError" ELSE "OverflowError"

\* _fmt(v) when it does not raise
_fmt(v) ==
    CASE v.t = "bool" -> (IF v.b THEN "1" ELSE "0")
      [] v.t = "float" -> (IF IsIntegral(v) THEN IntStr(v.m) ELSE FormatG6(v))
      [] v.t = "int" -> IntStr(v.i)
      [] v.t = "str" -> v.s

\* dict.get(key, default)
Get(d, key, default) == IF key \in DOMAIN d THEN d[key] ELSE default

\* the values _w and _w2 format: a single list argument is unpacked
Unpacked(values) ==
    IF Len(values) = 1 /\ values[1].t = "list" THEN values[1].l ELSE values

\* one call of _w, of _w2 or of self.lines.append, before formatting
_w(keyword, values) == [head |-> keyword, vals |-> Unpacked(values), raw |-> FALSE]
_w2(kw1, kw2, values) ==
    [head |-> kw1 \o "\t" \o kw2, vals |-> Unpacked(values), raw |-> FALSE]
RawLine(line) == [head |-> line, vals |-> << >>, raw |-> TRUE]

\* the line appended to self.lines
Render(entry) ==
    IF entry.raw THEN entry.head
    ELSE entry.head \o "\t" \o Join([j \in 1..Len(entry.vals) |-> _fmt(entry.vals[j])], "\t")

FZero == PyFloat(0, 0)
FOne == PyFloat(1, 0)
IZero == PyInt(0)

_gen_runspecs(params) ==
    LET p == Get(params, "runspecs", << >>)
    IN  << _w("Runset", << Get(p, "runSetName", PyStr("DefaultRun")) >>),
           _w("CohortSize", << Get(p, "numCohorts", PyInt(10000)) >>),
           _w("DiscFactor", << Get(p, "discountFactor", PyFloat(3, -2)) >>),
           _w("MaxPatCD4", << Get(p, "maxPatientCD4", PyFloat(2000, 0)) >>),
           _w("MthRecARTEffA", << Get(p, "monthRecordARTEfficacyA", PyInt(6)) >>),
           _w("MthRecARTEffB", << Get(p, "monthRecordARTEfficacyB", PyInt(12)) >>),
           _w("MthRecARTEffC", << Get(p, "monthRecordARTEfficacyC", PyInt(24)) >>),
           _w("RandSeedByTime", << Get(p, "randomSeedByTime", PyInt(1)) >>),
           _w("UserLocale", << Get(p, "userProgramLocale", PyStr("en_US")) >>),
           _w("InpVer", << Get(p, "inputVersion", PyStr("20210615")) >>),
           _w("ModelVer", << Get(p, "modelVersion", PyStr("50d")) >>),
           _w("IncludeTB_AsOI", << Get(p, "OIsIncludeTB", IZero) >>),
           _w("OIstrs", [j \in 1..OI_NUM |-> PyStr("OI" \o IntStr(j))]),
           _w("LongitLogCohort", << IZero >>),
           _w("LongitLogFirstOIs", Rep(IZero, OI_NUM)),
           _w("LogPriorOIHistProb", << IZero >>),
           _w("LogOIHistwithARTfails", << IZero >>),
           _w("LogOIHistwithCD4", << FZero, PyFloat(2000, 0) >>),
           _w("LogOIHistwithHVL", << IZero, PyInt(6) >>),
           _w("LogOIHistExcludeOITypes", Rep(IZero, OI_NUM)),
           _w("FOB_OIs", Rep(FOne, OI_NUM)),
           _w("Severe_OIs", Rep(IZero, OI_NUM)),
           _w("CD4Bounds", << PyFloat(50, 0), PyFloat(100, 0), PyFloat(200, 0),
                              PyFloat(350, 0), PyFloat(500, 0) >>),
           _w("EnableMultDiscountOutput", << IZero >>),
           _w("DiscountRatesCost", << FZero, PyFloat(3, -2), PyFloat(5, -2), PyFloat(7, -2) >>),
           _w("DiscountRatesBenefit",
              << FZero, PyFloat(3, -2), PyFloat(5, -2), PyFloat(7, -2) >>) >>

_gen_output(params) ==
    << _w("NumPatientsToTrace", << IZero >>),
       _w("EnableSubCohorts", << IZero >>),
       _w("SubCohortValues", Rep(IZero, 25)),
       _w("EnableDetailedCosts", << IZero >>) >>

_gen_cohort(params) ==
    LET p == Get(params, "cohort", << >>)
    IN  << _w("InitCD4", << Get(p, "initialCD4Mean", PyFloat(500, 0)),
                            Get(p, "initialCD4StdDev", PyFloat(200, 0)) >>),
           _w("UseSqRtTransform", << PyInt(1) >>) >>
        \o Flatten([c \in 1..Len(CD4_STRATA_REV) |->
               << _w("InitHVL", << >>),
                  _w(CD4_STRATA_REV[c],
                     << FZero, FZero, FZero, FZero, FZero, FZero, FOne >>) >>])
        \o << _w("InitAge", << PyFloat(360, 0), PyFloat(120, 0) >>),
              _w("InitAgeCustomDist", << IZero >>),
              _w("AgeStratMins", Rep(FZero, INIT_AGE_NUM_STRATA)),
              _w("AgeStratMaxes", Rep(FZero, INIT_AGE_NUM_STRATA)),
              _w("AgeStratProbs", Rep(FZero, INIT_AGE_NUM_STRATA)),
              _w("InitGender", << PyFloat(5, -1) >>),
              _w("ProphNonCompliance", << FZero, FZero >>),
              _w("PatClinicTypes", << FZero, FZero, FOne >>),
              _w("PatTreatmentTypes", << FZero, FZero, FOne >>),
              _w("PatCD4ResponeTypeOnART", Rep(PyFloat(25, -2), 4)),
              _w("PriorOIHistAtEntry", << >>) >>
        \o Flatten([oi \in 1..OI_NUM |->
               << RawLine("OI" \o IntStr(oi)) >>
               \o [h \in 1..Len(HVL_STRATA_REV) |->
                      _w(HVL_STRATA_REV[h], Rep(FZero, CD4_NUM_STRATA))]])
        \o << _w("ProbRiskFactorPrev", Rep(FZero, RISK_FACT_NUM)),
              _w("ProbRiskFactorIncid", Rep(FZero, RISK_FACT_NUM)),
              _w("GenRiskFactorStrs", [j \in 1..RISK_FACT_NUM |-> PyStr("Risk" \o IntStr(j))]),
              _w("ShowTransmissionOutput", << IZero >>) >>
        \o [h \in 1..Len(HVL_STRATA_REV) |->
               _w2("TransmissionRateOnART", HVL_STRATA_REV[h], Rep(FZero, CD4_NUM_STRATA))]
        \o << _w2("TransmissionRateOnART", "Acute", Rep(FZero, CD4_NUM_STRATA)) >>
        \o [h \in 1..Len(HVL_STRATA_REV) |->
               _w2("TransmissionRateOffART", HVL_STRATA_REV[h], Rep(FZero, CD4_NUM_STRATA))]
        \o << _w2("TransmissionRateOffART", "Acute", Rep(FZero, CD4_NUM_STRATA)),
              _w("TransmissionUseHIVTestAcuteDef", << IZero >>),
              _w("TransmissionAcuteDuration", << PyInt(3) >>),
              _w("IntvlTransmissionRateMultiplier", << PyInt(12), PyInt(24) >>),
              _w("TransmissionRateMultiplier", << FOne, FOne, FOne >>) >>
        \o [r \in 1..Len(TRANSM_RISK_STRS) |->
               _w2("TransmissionRiskDistribution", TRANSM_RISK_STRS[r],
                   Rep(FZero, TRANSM_RISK_AGE_NUM * 2))]
        \o << _w("TransmissionRiskMultiplierBounds", << PyInt(12), PyInt(24) >>) >>
        \o [j \in 1..3 |->
               _w("TransmissionRiskMultiplier_T" \o IntStr(j), Rep(FOne, Len(TRANSM_RISK_STRS)))]
        \o << _w("UseDynamicTransmission", << IZero >>),
              _w("DynamicTransmissionNumTransmissionsHRG", << FZero >>),
              _w("DynamicTransmissionPropHRGAttrib", << FZero >>),
              _w("DynamicTransmissionNumHIVPosHRG", << FZero >>),
              _w("DynamicTransmissionNumHIVNegHRG", << FZero >>),
              _w("DynamicTransmissionWarmupSize", << IZero >>),
              _w("DynamicTransmissionKeepPrEPAfterWarmup", << IZero >>),
              _w("DynamicTransmissionUsePrEPDuringWarmup", << IZero >>),
              _w("TransmissionUseEndLifeHVLAdjust", << IZero >>),
              _w("TransmissionEndLifeAdjustCD4Threshold", << FZero >>),
              _w("TransmissionEndLifeAdjustARTLineThreshold", << IZero >>) >>

\* the calls generate() makes, in order, up to the end of _gen_cohort
GeneratedEntries(params) ==
    _gen_runspecs(params) \o _gen_output(params) \o _gen_cohort(params)

\* the _gen_* calls of generate(), in call order, each with the section of the
\* tree whose lines it appends (the treatment section is written by two calls)
GenerateCalls ==
    << << "_gen_runspecs", "runspecs" >>, << "_gen_output", "output" >>,
       << "_gen_cohort", "cohort" >>, << "_gen_ltfu", "ltfu" >>,
       << "_gen_heterogeneity", "heterogeneity" >>, << "_gen_hivtest", "hivtest" >>,
       << "_gen_nathist", "nathist" >>, << "_gen_chrms", "chrms" >>,
       << "_gen_qol", "qol" >>, << "_gen_costs", "costs" >>,
       << "_gen_treatment_part1", "treatment" >>, << "_gen_arts", "arts" >>,
       << "_gen_treatment_part2", "treatment" >>, << "_gen_prophs", "prophs" >>,
       << "_gen_sti", "sti" >>, << "_gen_tb", "tb" >>, << "_gen_peds", "peds" >>,
       << "_gen_peds_prophs", "pedsprophs" >>, << "_gen_peds_arts", "pedsarts" >>,
       << "_gen_peds_costs", "pedscosts" >>, << "_gen_eid", "eid" >>,
       << "_gen_adolescent", "adolescent" >>,
       << "_gen_adolescent_arts", "adolescentarts" >> >>

\* the first value, in emission order, on which _fmt raises (when there is one)
RaisingValues(entries) ==
    Flatten([j \in 1..Len(entries) |->
        SelectSeq(entries[j].vals, FmtRaises)])

\* generate(params): the text, or the exception _fmt raised
generate(params) ==
    LET entries == GeneratedEntries(params)
        bad == RaisingValues(entries)
    IN  IF bad # << >>
        THEN [ok |-> FALSE, exc |-> FmtException(bad[1]), text |-> ""]
        ELSE [ok |-> TRUE, exc |-> "",
              text |-> Join([j \in 1..Len(entries) |-> Render(entries[j])], "\n")]

----------------------------------------------------------------------------
(* ui/input_parser.py: InputParser.  The cursor pos is 0-based as in the   *)
(* source: self.tokens[self.pos] is tokens[pos + 1].  A read returns the   *)
(* value, the cursor after it and the exception it raised ("" for none).   *)

\* one line of _tokenize after comment removal
CleanLine(line) ==
    LET l1 == IF Contains(line, "//") THEN SubSeq(line, 1, IndexOf(line, "//") - 1) ELSE line
    IN  IF Contains(l1, "#") /\ ~(Contains(l1, "\"") \/ Contains(l1, "'"))
        THEN SubSeq(l1, 1, IndexOf(l1, "#") - 1)
        ELSE l1

_tokenize(content) ==
    LET lines == SplitLines(content)
        cleaned_lines == [j \in 1..Len(lines) |-> CleanLine(lines[j])]
    IN  SplitWhitespace(Join(cleaned_lines, "\n"))

\* kw.split('_')[0]
Stem(kw) == Before(kw, "_")

KeywordStems == { Stem(kw) : kw \in DOMAIN KEYWORD_MAP }

\* the loop over the keywords returns True on the first stem the token
\* starts with; otherwise the result is `token in keywords`
_is_keyword(token) ==
    IF \E stem \in KeywordStems : StartsWith(token, stem) THEN TRUE
    ELSE token \in DOMAIN KEYWORD_MAP

Result(val, pos, exc) == [val |-> val, pos |-> pos, exc |-> exc]

_read_bool(tokens, pos) ==
    IF pos >= Len(tokens) THEN Result(PyBool(FALSE), pos, "")
    ELSE LET token == tokens[pos + 1]
         IN  IF Lower(token) \in {"true", "1", "yes", "y"} THEN Result(PyBool(TRUE), pos + 1, "")
             ELSE IF Lower(token) \in {"false", "0", "no", "n"}
                  THEN Result(PyBool(FALSE), pos + 1, "")
             ELSE IF IsIntLiteral(token)
                  THEN Result(PyBool(IntLiteralVal(token) # 0), pos + 1, "")
             ELSE Result(PyBool(FALSE), pos + 1, "")

\* int(float(token)) of an infinity raises OverflowError, which the
\* `except ValueError` clauses of _read_int do not catch
IntOfFloat(f, pos) ==
    IF f.k = "fin" THEN Result(PyInt(TruncFloat(f)), pos + 1, "")
    ELSE IF f.k = "nan" THEN Result(PyInt(0), pos + 1, "")
    ELSE Result(PyInt(0), pos + 1, "OverflowError")

\* _read_int as it would be without its end-of-input test: the indexing
\* self.tokens[self.pos] at the end of the tokens raises IndexError
_read_int_NoEndTest(tokens, pos) ==
    IF pos >= Len(tokens) THEN Result(PyInt(0), pos, "IndexError")
    ELSE LET token == tokens[pos + 1]
         IN  IF IsIntLiteral(token) THEN Result(PyInt(IntLiteralVal(token)), pos + 1, "")
             ELSE IF ~IsFloatLiteral(token) THEN Result(PyInt(0), pos + 1, "")
             ELSE IntOfFloat(FloatLiteralVal(token), pos)

_read_int(tokens, pos) ==
    IF pos >= Len(tokens) THEN Result(PyInt(0), pos, "")
    ELSE LET token == tokens[pos + 1]
         IN  IF IsIntLiteral(token) THEN Result(PyInt(IntLiteralVal(token)), pos + 1, "")
             ELSE IF ~IsFloatLiteral(token) THEN Result(PyInt(0), pos + 1, "")
             ELSE IntOfFloat(FloatLiteralVal(token), pos)

_read_float(tokens, pos) ==
    IF pos >= Len(tokens) THEN Result(PyFloat(0, 0), pos, "")
    ELSE LET token == tokens[pos + 1]
         IN  IF IsFloatLiteral(token) THEN Result(FloatLiteralVal(token), pos + 1, "")
             ELSE Result(PyFloat(0, 0), pos + 1, "")

_read_string(tokens, pos) ==
    IF pos >= Len(tokens) THEN Result(PyStr(""), pos, "")
    ELSE Result(PyStr(tokens[pos + 1]), pos + 1, "")

\* an assignment `x = self._read_...()`: when the read raises, x keeps old
KeepOnRaise(old, r) == IF r.exc # "" THEN Result(old, r.pos, r.exc) ELSE r

\* the isinstance chain shared by _read_value_for_path, _read_list_into and
\* _read_nested_list, for a non-list value
ReadScalar(old, tokens, pos) ==
    KeepOnRaise(old, CASE old.t = "bool" -> _read_bool(tokens, pos)
                       [] old.t = "int" -> _read_int(tokens, pos)
                       [] old.t = "float" -> _read_float(tokens, pos)
                       [] old.t = "str" -> _read_string(tokens, pos))

\* the list a read loop leaves behind, as a value
AsList(r) == Result(PyList(r.val), r.pos, r.exc)

RECURSIVE _read_nested_list(_, _, _, _)

\* one iteration of the loop: the element at i is a list, read in place by
\* the recursive call, or a scalar
ReadElement(elem, tokens, pos) ==
    IF elem.t = "list" THEN AsList(_read_nested_list(elem.l, 1, tokens, pos))
    ELSE ReadScalar(elem, tokens, pos)

\* lst[i] = r.val, then the iterations from i + 1 on unless the read raised
StoreAndContinue(lst, i, tokens, r) ==
    IF r.exc # "" THEN Result([lst EXCEPT ![i] = r.val], r.pos, r.exc)
    ELSE _read_nested_list([lst EXCEPT ![i] = r.val], i + 1, tokens, r.pos)

\* the loop `for i in range(len(lst))` of _read_nested_list from element i on
\* (lst is a sequence, 1-based); its elements are replaced in place, so the
\* elements read before an exception keep their new values
_read_nested_list(lst, i, tokens, pos) ==
    IF i > Len(lst) \/ pos >= Len(tokens) THEN Result(lst, pos, "")
    ELSE StoreAndContinue(lst, i, tokens, ReadElement(lst[i], tokens, pos))

\* _read_list_into(parent, key) for a list parent[key]: the same loop
_read_list_into(lst, tokens, pos) == AsList(_read_nested_list(lst.l, 1, tokens, pos))

ParserState(params, pos, exc) == [params |-> params, pos |-> pos, exc |-> exc]

\* the rows of a list field after the in-place writes lst[i] = ... that turned
\* `old` into `new`: a row shows the content of the last written row that is
\* the same object as it
RowsInPlace(tab, path, old, new, written) ==
    [i \in DOMAIN new |->
        LET same == { k \in written :
                        ObjectAt(1, << tab, path, k >>) = ObjectAt(1, << tab, path, i >>) }
        IN  IF same = {} THEN new[i]
            ELSE new[CHOOSE k \in same : \A m \in same : m <= k]]

\* the field after the read: a scalar is rebound, a list is written in place
InPlace(tab, path, old, new) ==
    IF new.t = "list" /\ path \in DOMAIN RowConstructor
    THEN PyList(RowsInPlace(tab, path, old.l, new.l,
                            { i \in DOMAIN new.l : new.l[i] # old.l[i] }))
    ELSE new

\* the assignment as it would be if it rebuilt the section from the defaults
\* around the field just read
Assigned_ResetsSection(params, tab, path, r) ==
    ParserState([params EXCEPT ![tab] =
                    [create_default_params[tab] EXCEPT
                        ![path] = InPlace(tab, path, params[tab][path], r.val)]],
                r.pos, r.exc)

\* self.params[tab][path] = r.val, the cursor and the exception of the read
Assigned(params, tab, path, r) ==
    ParserState([params EXCEPT ![tab][path] = InPlace(tab, path, params[tab][path], r.val)],
                r.pos, r.exc)

\* the isinstance chain of _read_value_for_path on the field's current value
ReadField(param, tokens, pos) ==
    IF param.t = "list" THEN _read_list_into(param, tokens, pos)
    ELSE ReadScalar(param, tokens, pos)

\* _read_value_for_path as it would be if it stored a value under a path the
\* section does not have
_read_value_for_path_AddsField(tab, path, params, tokens, pos) ==
    IF tab \notin DOMAIN params THEN ParserState(params, pos, "")
    ELSE IF Contains(path, "[") THEN ParserState(params, pos, "")
    ELSE IF path \notin DOMAIN params[tab]
         THEN ParserState([params EXCEPT ![tab] = (path :> PyStr("")) @@ params[tab]], pos, "")
    ELSE Assigned(params, tab, path, ReadField(params[tab][path], tokens, pos))

_read_value_for_path(tab, path, params, tokens, pos) ==
    IF tab \notin DOMAIN params THEN ParserState(params, pos, "")
    ELSE IF Contains(path, "[") THEN ParserState(params, pos, "")
    ELSE IF path \notin DOMAIN params[tab] THEN ParserState(params, pos, "")
    ELSE Assigned(params, tab, path, ReadField(params[tab][path], tokens, pos))

\* _handle_special_keyword as it would be if it skipped one value token
_handle_special_keyword_SkipsValue(keyword, params, tokens, pos) ==
    ParserState(params, IF pos < Len(tokens) THEN pos + 1 ELSE pos, "")

\* `pass`
_handle_special_keyword(keyword, params, tokens, pos) == ParserState(params, pos, "")

_parse_keyword_section(keyword, params, tokens, pos) ==
    IF keyword \in DOMAIN KEYWORD_MAP
    THEN _read_value_for_path(KEYWORD_MAP[keyword][1], KEYWORD_MAP[keyword][2],
                              params, tokens, pos + 1)
    ELSE _handle_special_keyword(keyword, params, tokens, pos + 1)

\* the scan loop of parse_content from the cursor pos on: the parser when the
\* loop ends or a read raises
RECURSIVE ScanLoop(_, _, _)
ScanNext(r, tokens) == IF r.exc # "" THEN r ELSE ScanLoop(r.params, tokens, r.pos)

ScanLoop(params, tokens, pos) ==
    IF pos >= Len(tokens) THEN ParserState(params, pos, "")
    ELSE IF _is_keyword(tokens[pos + 1])
         THEN ScanNext(_parse_keyword_section(tokens[pos + 1], params, tokens, pos), tokens)
         ELSE ScanLoop(params, tokens, pos + 1)

\* parse_content(content) as one function of the text
parse_content(content) == ScanLoop(create_default_params, _tokenize(content), 0)

----------------------------------------------------------------------------
(* The inputs: trees handed to generate_in_file and texts handed to        *)
(* parse_in_content                                                        *)

MaxTokens == 2
MaxMutations == 1

\* tokens an input text is made of: keywords of each field kind, tokens that
\* are no keyword (two of them start with a keyword stem), and value tokens
TokenAlphabet ==
    { "Runset", "CohortSize", "DiscFactor", "RandSeedByTime", "LogOIHistwithCD4",
      "InitHVL", "MthRecARTEffA", "InitCD4",
      "NotARealKeyword", "Severe", "CohortSizes",
      "yes", "maybe", "TRUE", "n", "0", "2", "-7", "2.5", "1.0", "1e3", "inf", "nan" }

TokenSeqs == UNION { [1..k -> TokenAlphabet] : k \in 0..MaxTokens }

InputTexts == { Join(toks, " ") : toks \in TokenSeqs }

\* texts with a comment: a line made of `pre`, a comment marker and the
\* commented-out `post`, then the lines `next`; in the third `pre` the line
\* holds a quoted string that ends before the marker
CommentCases ==
    [ pre : { "", "Runset a ", "Runset \"a\" " },
      marker : { "//", "#" },
      post : { " CohortSize 5" },
      next : { "", "\nDiscFactor 2.5" } ]

CommentTexts == { c.pre \o c.marker \o c.post \o c.next : c \in CommentCases }

\* texts with one token sequence and every choice of the whitespace after
\* each token: the two values of a vector and a following keyword on one
\* line or spread over several
LayoutTokens == << "LogOIHistwithCD4", "2.5", "1e3", "CohortSize", "2" >>

Separators == { " ", "\t", "\n", "\r\n" }

LayoutTexts ==
    { Join([j \in 1..Len(LayoutTokens) |-> LayoutTokens[j] \o seps[j]], "") :
        seps \in [1..Len(LayoutTokens) -> Separators] }

\* double-keyword lines as _w2 lays them out, with values that are not the
\* defaults
CompositeTexts ==
    { Join(<< kw1, "Acute", "1", "2", "3", "4", "5", "6" >>, "\t") :
        kw1 \in { "TransmissionRateOnART", "TransmissionRateOffART" } }

\* texts with a value token for an Int field that is an integer, a float
\* literal that is no finite number, or no number, and a keyword line after it
CoercionTexts ==
    { Join(<< "CohortSize", tok, "DiscFactor", "2.5" >>, " ") :
        tok \in { "7", "inf", "nan", "abc" } }

\* a row of initialHVLDistribution and a CD4-indexed vector with distinct values
DistinctHVLRow == PyList([j \in 1..SCHEMA_HVL_NUM_STRATA |-> PyFloat(j, -1)])
DistinctCD4Vector == PyList([j \in 1..SCHEMA_CD4_NUM_STRATA |-> PyFloat(j, 0)])

\* replacements of one field value by a value of the same type and shape
FieldMutations ==
    { << "runspecs", "runSetName", PyStr("abc") >>,
      << "runspecs", "runSetName", PyStr("My Run") >>,
      << "runspecs", "runSetName", PyStr("two\nlines") >>,
      << "runspecs", "numCohorts", PyInt(5000) >>,
      << "runspecs", "discountFactor", PyFloat(5, -2) >>,
      << "runspecs", "maxPatientCD4", PyFloat(1234567, -4) >>,
      << "runspecs", "randomSeedByTime", PyBool(FALSE) >>,
      << "runspecs", "OIsIncludeTB", PyBool(TRUE) >>,
      << "output", "traceNumSelection", PyInt(7) >>,
      << "cohort", "initialCD4Mean", PyFloat(400, 0) >>,
      << "cohort", "maleGenderDistribution", PyFloat(25, -2) >>,
      << "cohort", "initialHVLDistribution",
         PyList([ZeroCD4ByHVL.l EXCEPT ![SCHEMA_CD4_NUM_STRATA] = DistinctHVLRow]) >>,
      << "cohort", "transmRateOnARTAcute", DistinctCD4Vector >> }

Mutate(tree, m) == [tree EXCEPT ![m[1]][m[2]] = m[3]]

RECURSIVE MutatedTrees(_)
MutatedTrees(n) ==
    IF n = 0 THEN { create_default_params }
    ELSE LET prev == MutatedTrees(n - 1)
         IN  prev \cup { Mutate(tree, m) : tree \in prev, m \in FieldMutations }

\* the scenario tree: numCohorts 5000 and discountFactor 0.05, the rest default
ScenarioTree ==
    [create_default_params EXCEPT !.runspecs.numCohorts = PyInt(5000),
                                  !.runspecs.discountFactor = PyFloat(5, -2)]

InputTrees == MutatedTrees(MaxMutations) \cup { ScenarioTree }

\* self.params before the first parse_content (None)
NoTree == << >>

----------------------------------------------------------------------------
(* The state machine: generate_in_file(src), parse_in_content(content)     *)
(* one scan-loop iteration at a time, and generate_in_file of the result   *)

VARIABLES
    origin,     \* "tree": the run starts from a tree; "text": from an input text
    src,        \* the tree passed to the first generate()
    content,    \* the text passed to parse_content
    tokens,     \* InputParser.tokens
    pos,        \* InputParser.pos
    params,     \* InputParser.params
    text1,      \* the text the first generate() returned
    text2,      \* the text generate() returned for the decoded tree
    exc,        \* the exception that ended the run, "" for none
    pc,         \* where the run is
    obj,        \* the dict InputParser.params is bound to: the number of the
                \* create_default_params() call that built it, 0 for None
    returned,   \* what earlier parse_content calls of this InputParser returned:
                \* the text, the tree as it is now, and the dict it is
    current_params, \* ui/app.py: the module global current_params
    request,    \* the request the web app served last
    response,   \* the status and the 'success' entry of its response
    run         \* ModelRunner.run: its position, what it has done, its result

codecVars ==
    << origin, src, content, tokens, pos, params, text1, text2, exc, pc, obj, returned >>
appVars == << current_params, request, response, run >>
vars == << codecVars, appVars >>

Init ==
    /\ \/ /\ origin = "tree"
          /\ src \in InputTrees
          /\ content = ""
          /\ pc = "tree"
       \/ /\ origin = "text"
          /\ src = NoTree
          /\ content \in InputTexts \cup CommentTexts \cup LayoutTexts \cup CompositeTexts
                           \cup CoercionTexts
          /\ pc = "text"
    /\ tokens = << >>
    /\ pos = 0
    /\ params = NoTree
    /\ text1 = ""
    /\ text2 = ""
    /\ exc = ""
    /\ obj = 0
    /\ returned = << >>
    /\ current_params = NoTree
    /\ request = << >>
    /\ response = << >>
    /\ run = << >>

\* the outcome r of the first generate(): the text, kept and handed on to
\* parse_in_content, or the exception
FirstText(r) ==
    /\ text1' = r.text
    /\ content' = r.text
    /\ exc' = r.exc
    /\ pc' = IF r.ok THEN "text" ELSE "generate_raised"

\* the tree as generate would leave it if _gen_runspecs took the run set name
\* out of the section (p.pop for p.get)
TreeAfterGenerate_PopsRunSetName(tree) ==
    [tree EXCEPT !.runspecs =
        [f \in DOMAIN tree.runspecs \ { "runSetName" } |-> tree.runspecs[f]]]

\* the tree after generate(tree): self.p = params binds the caller's tree,
\* and every access to it is a read (p.get, _g); no statement assigns to it
TreeAfterGenerate(tree) == tree

\* generate_in_file(src)
Generate ==
    /\ pc = "tree"
    /\ FirstText(generate(src))
    /\ src' = TreeAfterGenerate(src)
    /\ UNCHANGED << origin, tokens, pos, params, text2, obj, returned >>
    /\ UNCHANGED appVars

\* ParseBegin as it would be if the tree started empty (self.params = {})
ParseBegin_EmptyTree ==
    /\ pc = "text"
    /\ params' = NoTree
    /\ obj' = obj + 1
    /\ tokens' = _tokenize(content)
    /\ pos' = 0
    /\ pc' = "scan"
    /\ UNCHANGED << origin, src, content, text1, text2, exc, returned >>
    /\ UNCHANGED appVars

\* ParseBegin as it would be if a parser that already holds a tree kept it
\* (`if self.params is None: self.params = create_default_params()`)
ParseBegin_KeepsTree ==
    /\ pc = "text"
    /\ params' = IF obj = 0 THEN create_default_params ELSE params
    /\ obj' = IF obj = 0 THEN 1 ELSE obj
    /\ tokens' = _tokenize(content)
    /\ pos' = 0
    /\ pc' = "scan"
    /\ UNCHANGED << origin, src, content, text1, text2, exc, returned >>
    /\ UNCHANGED appVars

\* parse_content up to the scan loop: self.params is bound to the dict a new
\* call of create_default_params() builds, the tokens and the cursor are reset
ParseBegin ==
    /\ pc = "text"
    /\ params' = create_default_params
    /\ obj' = obj + 1
    /\ tokens' = _tokenize(content)
    /\ pos' = 0
    /\ pc' = "scan"
    /\ UNCHANGED << origin, src, content, text1, text2, exc, returned >>
    /\ UNCHANGED appVars

\* one iteration of the scan loop on a token that _is_keyword rejects
ScanSkip ==
    /\ pc = "scan"
    /\ pos < Len(tokens)
    /\ ~_is_keyword(tokens[pos + 1])
    /\ pos' = pos + 1
    /\ UNCHANGED << origin, src, content, tokens, params, text1, text2, exc, pc, obj, returned >>
    /\ UNCHANGED appVars

\* the parser after _parse_keyword_section returned or raised; the writes go
\* to the dict self.params is bound to, so a tree returned earlier shows them
\* when it is that dict
Dispatched(r) ==
    /\ params' = r.params
    /\ pos' = r.pos
    /\ exc' = r.exc
    /\ pc' = IF r.exc = "" THEN "scan" ELSE "parse_raised"
    /\ returned' = [j \in DOMAIN returned |->
                       IF returned[j].obj = obj
                       THEN [returned[j] EXCEPT !.tree = r.params] ELSE returned[j]]

\* one iteration of the scan loop on a token that _is_keyword accepts
ScanKeyword ==
    /\ pc = "scan"
    /\ pos < Len(tokens)
    /\ _is_keyword(tokens[pos + 1])
    /\ Dispatched(_parse_keyword_section(tokens[pos + 1], params, tokens, pos))
    /\ UNCHANGED << origin, src, content, tokens, text1, text2, obj >>
    /\ UNCHANGED appVars

\* the scan loop ends and parse_content returns self.params
ParseReturn ==
    /\ pc = "scan"
    /\ pos >= Len(tokens)
    /\ pc' = "parsed"
    /\ UNCHANGED << origin, src, content, tokens, pos, params, text1, text2, exc, obj, returned >>
    /\ UNCHANGED appVars

\* the outcome r of the second generate()
SecondText(r) ==
    /\ text2' = r.text
    /\ exc' = r.exc
    /\ pc' = IF r.ok THEN "regenerated" ELSE "regenerate_raised"

\* generate_in_file of the decoded tree, the last call of the round trip
\* tree -> text -> tree -> text (a run that starts from a text ends at the
\* return of parse_content)
Regenerate ==
    /\ pc = "parsed"
    /\ origin = "tree"
    /\ SecondText(generate(params))
    /\ params' = TreeAfterGenerate(params)
    /\ UNCHANGED << origin, src, content, tokens, pos, text1, obj, returned >>
    /\ UNCHANGED appVars

\* the outcome r of a further generate() on the tree just encoded
AgainText(r) ==
    /\ text2' = r.text
    /\ exc' = r.exc
    /\ pc' = IF r.ok THEN "generated_twice" ELSE "regenerate_raised"

\* self.lines at the start of generate() on an InputGenerator whose previous
\* call left the lines `previous`, as it would be without `self.lines = []`
LinesAtStart_KeepsPrevious(previous) == previous

\* self.lines = [] at the start of generate()
LinesAtStart(previous) == << >>

\* the outcome of generate() on a used InputGenerator, r being the outcome on
\* a new one: the lines of the call are appended to self.lines
OnUsedGenerator(previous, r) ==
    IF r.ok THEN [r EXCEPT !.text = Join(LinesAtStart(previous) \o << r.text >>, "\n")]
    ELSE r

\* generate called once more on the same InputGenerator and the same tree
GenerateAgain ==
    /\ pc = "regenerated"
    /\ AgainText(OnUsedGenerator(<< text2 >>, generate(params)))
    /\ params' = TreeAfterGenerate(params)
    /\ UNCHANGED << origin, src, content, tokens, pos, text1, obj, returned >>
    /\ UNCHANGED appVars

\* texts of a first call on a parser that is then used again, and the texts
\* of the second call
FirstCallTexts == CommentTexts \cup CompositeTexts \cup CoercionTexts
SecondCallTexts == { "", "CohortSize 9", "LogOIHistwithCD4 2.5" }

\* parse_content is called again on the InputParser, after the first call
\* returned its tree or raised; the parser still holds the tree, the tokens
\* and the cursor of the first call
ParseAgain ==
    /\ pc \in { "parsed", "parse_raised" }
    /\ origin = "text"
    /\ obj = 1
    /\ content \in FirstCallTexts
    /\ returned' = IF pc = "parsed"
                   THEN << [content |-> content, tree |-> params, obj |-> obj] >>
                   ELSE returned
    /\ content' \in SecondCallTexts
    /\ exc' = ""
    /\ pc' = "text"
    /\ UNCHANGED << origin, src, tokens, pos, params, text1, text2, obj >>
    /\ UNCHANGED appVars

Next ==
    \/ Generate
    \/ ParseBegin
    \/ ScanSkip
    \/ ScanKeyword
    \/ ParseReturn
    \/ Regenerate
    \/ GenerateAgain
    \/ ParseAgain

Spec == Init /\ [][Next]_vars

----------------------------------------------------------------------------
(* ui/app.py and ui/model_runner.py: the web app's session tree and the    *)
(* requests that change it, and ModelRunner.run step by step.  A JSON      *)
(* object is a function on its keys, as a dict of the tree is; every other *)
(* JSON value is a tagged Python value.  The environment (the compiler,    *)
(* the file system, the engine process) chooses the outcome of each step   *)
(* of a run.                                                               *)

\* isinstance(values, dict)
IsDict(values) == "t" \notin DOMAIN values

\* the loop of set_params over data.items() from item i on: the tree it
\* leaves and the exception that ended it.  dict.update keeps the keys of
\* the section and adds those of values; update on a section that is no
\* dict raises AttributeError
RECURSIVE Merge(_, _, _)
Merge(tree, items, i) ==
    IF i > Len(items) THEN [tree |-> tree, exc |-> ""]
    ELSE IF items[i][1] \notin DOMAIN tree THEN Merge(tree, items, i + 1)
    ELSE IF ~IsDict(items[i][2])
         THEN Merge([tree EXCEPT ![items[i][1]] = items[i][2]], items, i + 1)
    ELSE IF ~IsDict(tree[items[i][1]]) THEN [tree |-> tree, exc |-> "AttributeError"]
    ELSE Merge([tree EXCEPT ![items[i][1]] =
                   [k \in DOMAIN items[i][2] \cup DOMAIN tree[items[i][1]] |->
                       IF k \in DOMAIN items[i][2]
                       THEN items[i][2][k] ELSE tree[items[i][1]][k]]],
               items, i + 1)

\* the JSON bodies of the POST /api/params requests: no body, an array, and
\* objects whose items are << tab, values >> in the order of the document
Payloads ==
    { [json |-> "none", items |-> << >>],
      [json |-> "array", items |-> << >>],
      [json |-> "object", items |-> << >>],
      [json |-> "object", items |-> << << "runspecs", [numCohorts |-> PyInt(5000)] >> >>],
      [json |-> "object", items |-> << << "runspecs", [userNote |-> PyStr("x")] >> >>],
      [json |-> "object", items |-> << << "results", [numCohorts |-> PyInt(1)] >> >>],
      [json |-> "object", items |-> << << "output", PyInt(5) >> >>],
      [json |-> "object", items |->
          << << "cohort", [initialCD4Mean |-> PyFloat(400, 0)] >>,
             << "output", [traceNumSelection |-> PyInt(7)] >>,
             << "runspecs", [discountFactor |-> PyFloat(5, -2)] >> >>] }

\* the uploads of the POST /api/import requests: no 'file' part, a part with
\* an empty filename, bytes that are not UTF-8, and named text files
ImportRequests ==
    { [file |-> "absent", content |-> ""],
      [file |-> "unnamed", content |-> "CohortSize 9"],
      [file |-> "undecodable", content |-> ""] } \cup
    { [file |-> "named", content |-> c] :
        c \in { "", "CohortSize 9", "DiscFactor inf", "DiscFactor 2.5 CohortSize inf" } }

AppInit ==
    /\ current_params = create_default_params
    /\ request = [route |-> "", body |-> << >>]
    /\ response = [status |-> 0, success |-> FALSE]
    /\ run = [pc |-> "idle", compile_ok |-> FALSE, compile_msg |-> "",
              written |-> FALSE, invoked |-> FALSE, returncode |-> "",
              success |-> FALSE, message |-> ""]
    /\ origin = "app"
    /\ src = NoTree
    /\ content = ""
    /\ tokens = << >>
    /\ pos = 0
    /\ params = NoTree
    /\ text1 = ""
    /\ text2 = ""
    /\ exc = ""
    /\ pc = "app"
    /\ obj = 0
    /\ returned = << >>

\* POST /api/params
SetParams ==
    /\ run.pc = "idle"
    /\ \E data \in Payloads :
        /\ request' = [route |-> "set_params", body |-> data]
        /\ IF data.json = "array"
           THEN /\ response' = [status |-> 500, success |-> FALSE]
                /\ UNCHANGED current_params
           ELSE /\ current_params' = Merge(current_params, data.items, 1).tree
                /\ response' =
                      IF Merge(current_params, data.items, 1).exc = ""
                      THEN [status |-> 200, success |-> TRUE]
                      ELSE [status |-> 500, success |-> FALSE]
    /\ UNCHANGED << run, codecVars >>

\* POST /api/params/reset
ResetParams ==
    /\ run.pc = "idle"
    /\ request' = [route |-> "reset_params", body |-> << >>]
    /\ current_params' = create_default_params
    /\ response' = [status |-> 200, success |-> TRUE]
    /\ UNCHANGED << run, codecVars >>

\* an import that binds current_params to the tree of the parser before the
\* decoding is known to have ended
ImportFile_StoresPartialTree ==
    /\ run.pc = "idle"
    /\ \E upload \in ImportRequests :
        /\ request' = [route |-> "import_in_file", body |-> upload]
        /\ IF upload.file = "named"
           THEN /\ current_params' = parse_content(upload.content).params
                /\ response' =
                      IF parse_content(upload.content).exc = ""
                      THEN [status |-> 200, success |-> TRUE]
                      ELSE [status |-> 400, success |-> FALSE]
           ELSE /\ response' = [status |-> 400, success |-> FALSE]
                /\ UNCHANGED current_params
    /\ UNCHANGED << run, codecVars >>

\* POST /api/import
ImportFile ==
    /\ run.pc = "idle"
    /\ \E upload \in ImportRequests :
        /\ request' = [route |-> "import_in_file", body |-> upload]
        /\ IF upload.file = "named" /\ parse_content(upload.content).exc = ""
           THEN /\ current_params' = parse_content(upload.content).params
                /\ response' = [status |-> 200, success |-> TRUE]
           ELSE /\ response' = [status |-> 400, success |-> FALSE]
                /\ UNCHANGED current_params
    /\ UNCHANGED << run, codecVars >>

\* POST /api/run up to the call of ModelRunner.run: generate_in_file raises
\* when one of the two sections it reads is no dict (AttributeError) and on
\* a value _fmt cannot format; run starts with success False and an empty
\* message
RunRequest ==
    /\ run.pc = "idle"
    /\ request' = [route |-> "run_model", body |-> << >>]
    /\ IF /\ IsDict(current_params.runspecs)
          /\ IsDict(current_params.cohort)
          /\ generate(current_params).ok
       THEN /\ run' = [pc |-> "compile", compile_ok |-> FALSE, compile_msg |-> "",
                       written |-> FALSE, invoked |-> FALSE, returncode |-> "",
                       success |-> FALSE, message |-> ""]
            /\ UNCHANGED response
       ELSE /\ response' = [status |-> 500, success |-> FALSE]
            /\ UNCHANGED run
    /\ UNCHANGED << current_params, codecVars >>

\* a run that goes on to the input file whatever compile_if_needed returned
RunCompile_IgnoresResult ==
    /\ run.pc = "compile"
    /\ \E ret \in { << TRUE, "Executable is up to date" >>,
                    << TRUE, "Compilation successful" >>,
                    << FALSE, "Compilation failed" >>,
                    << FALSE, "Compilation timed out" >>,
                    << FALSE, "Compilation error" >> } :
        run' = [run EXCEPT !.compile_ok = ret[1], !.compile_msg = ret[2], !.pc = "write"]
    /\ UNCHANGED << current_params, request, response, codecVars >>

\* compile_if_needed and the test of compile_ok
RunCompile ==
    /\ run.pc = "compile"
    /\ \E ret \in { << TRUE, "Executable is up to date" >>,
                    << TRUE, "Compilation successful" >>,
                    << FALSE, "Compilation failed" >>,
                    << FALSE, "Compilation timed out" >>,
                    << FALSE, "Compilation error" >> } :
        run' = IF ret[1]
               THEN [run EXCEPT !.compile_ok = TRUE, !.compile_msg = ret[2],
                                !.pc = "write"]
               ELSE [run EXCEPT !.compile_ok = FALSE, !.compile_msg = ret[2],
                                !.message = ret[2], !.pc = "returned"]
    /\ UNCHANGED << current_params, request, response, codecVars >>

\* the temporary directory and the input file; open() is outside the try
RunWrite ==
    /\ run.pc = "write"
    /\ \E opened \in BOOLEAN :
        run' = IF opened
               THEN [run EXCEPT !.written = TRUE, !.pc = "invoke"]
               ELSE [run EXCEPT !.pc = "raised"]
    /\ UNCHANGED << current_params, request, response, codecVars >>

\* subprocess.run of the executable and the test of its return code
RunInvoke ==
    /\ run.pc = "invoke"
    /\ \E outcome \in { "zero", "nonzero", "TimeoutExpired", "OSError" } :
        run' = CASE outcome = "zero" ->
                      [run EXCEPT !.invoked = TRUE, !.returncode = "zero",
                                  !.message = "stdout", !.pc = "collect"]
                 [] outcome = "nonzero" ->
                      [run EXCEPT !.invoked = TRUE, !.returncode = "nonzero",
                                  !.message = "stdout Stderr", !.success = FALSE,
                                  !.pc = "returned"]
                 [] outcome = "TimeoutExpired" ->
                      [run EXCEPT !.invoked = TRUE,
                                  !.message = "Model execution timed out (10 minute limit)",
                                  !.pc = "returned"]
                 [] outcome = "OSError" ->
                      [run EXCEPT !.invoked = TRUE, !.message = "Execution error",
                                  !.pc = "returned"]
    /\ UNCHANGED << current_params, request, response, codecVars >>

\* reading the output files, then result['success'] = True
RunCollect ==
    /\ run.pc = "collect"
    /\ \E readable \in BOOLEAN :
        run' = IF readable
               THEN [run EXCEPT !.success = TRUE, !.pc = "returned"]
               ELSE [run EXCEPT !.message = "Execution error", !.pc = "returned"]
    /\ UNCHANGED << current_params, request, response, codecVars >>

\* run_model answers with the result of run, or with 500 when run raised;
\* the result and the runner are local to the request
RunReturn ==
    /\ run.pc \in { "returned", "raised" }
    /\ response' = IF run.pc = "returned"
                   THEN [status |-> 200, success |-> run.success]
                   ELSE [status |-> 500, success |-> FALSE]
    /\ run' = [pc |-> "idle", compile_ok |-> FALSE, compile_msg |-> "",
               written |-> FALSE, invoked |-> FALSE, returncode |-> "",
               success |-> FALSE, message |-> ""]
    /\ UNCHANGED << current_params, request, codecVars >>

AppNext ==
    \/ SetParams
    \/ ResetParams
    \/ ImportFile
    \/ RunRequest
    \/ RunCompile
    \/ RunWrite
    \/ RunInvoke
    \/ RunCollect
    \/ RunReturn

AppSpec == AppInit /\ [][AppNext]_vars

----------------------------------------------------------------------------
(* Properties *)

\* the lines of an emitted text and the line that starts with a given header
LineWith(text, header) ==
    LET lines == SplitLines(text)
    IN  lines[CHOOSE j \in 1..Len(lines) : StartsWith(lines[j], header \o "\t")]

\* the tab-separated values that follow the header on its line
ValuesAfter(text, header) ==
    LET line == LineWith(text, header)
    IN  SplitRange(line, {"\t"}, Len(header) + 2, Len(line))

\* the formatted elements of a list value, last index first
FormattedDescending(lst) == [j \in 1..Len(lst.l) |-> _fmt(lst.l[Len(lst.l) + 1 - j])]

Sections == DOMAIN create_default_params
FieldsOf(sec) == DOMAIN create_default_params[sec]

\* the keywords of KEYWORD_MAP that name a scalar field of the default tree
ScalarKeywords ==
    { kw \in DOMAIN KEYWORD_MAP :
        /\ KEYWORD_MAP[kw][1] \in Sections
        /\ KEYWORD_MAP[kw][2] \in FieldsOf(KEYWORD_MAP[kw][1])
        /\ create_default_params[KEYWORD_MAP[kw][1]][KEYWORD_MAP[kw][2]].t # "list" }

\* the field a keyword of KEYWORD_MAP names, in a tree
FieldOf(tree, kw) == tree[KEYWORD_MAP[kw][1]][KEYWORD_MAP[kw][2]]

\* no token of the input is a keyword of the keyword map
NoKeywordToken == \A j \in 1..Len(tokens) : tokens[j] \notin DOMAIN KEYWORD_MAP

\* C1: round-trip re-encoding: for a tree T obtained from the defaults by
\* replacing field values with values of the same type and shape, encoding
\* the decoding of the encoding of T gives the text the first encoding gave.
C1_RoundTripReencoding ==
    (origin = "tree" /\ pc = "regenerated") => text2 = text1

\* C2: scenario decode: decoding the encoding of the scenario tree gives
\* numCohorts 5000, discountFactor 0.05 and every other field at its default.
C2_ScenarioDecode ==
    (origin = "tree" /\ src = ScenarioTree /\ pc = "parsed") =>
        /\ params.runspecs.numCohorts = PyInt(5000)
        /\ params.runspecs.discountFactor = PyFloat(5, -2)
        /\ \A sec \in Sections : \A fld \in FieldsOf(sec) :
              << sec, fld >> \notin { << "runspecs", "numCohorts" >>,
                                      << "runspecs", "discountFactor" >> }
                  => params[sec][fld] = create_default_params[sec][fld]

\* C3: the encoder's text reflects the tree: on the line of every keyword that
\* names a scalar field, the emitted value is the field's value in the tree
\* passed to generate.
C3_EncoderReflectsTree ==
    (origin = "tree" /\ pc = "text") =>
        \A kw \in ScalarKeywords :
            ValuesAfter(text1, kw) = << _fmt(FieldOf(src, kw)) >>

\* C4: parse_in_content never raises, whatever the input text is.
C4_ParseNeverRaises == pc # "parse_raised"

\* C5: stratum order inversion: a field indexed by a stratum axis is emitted
\* highest index first (each InitHVL row under its CD4 label, the CD4 vector
\* of TransmissionRateOnART Acute), and decoding the emitted text restores
\* the field as it was in the tree.
C5_StratumOrderInversion ==
    origin = "tree" =>
        /\ pc = "text" =>
              /\ \A c \in 1..SCHEMA_CD4_NUM_STRATA :
                    ValuesAfter(text1, CD4_STRATA_STRS[c])
                        = FormattedDescending(src.cohort.initialHVLDistribution.l[c])
              /\ ValuesAfter(text1, "TransmissionRateOnART\tAcute")
                    = FormattedDescending(src.cohort.transmRateOnARTAcute)
        /\ pc = "parsed" =>
              /\ params.cohort.initialHVLDistribution = src.cohort.initialHVLDistribution
              /\ params.cohort.transmRateOnARTAcute = src.cohort.transmRateOnARTAcute

\* C6: default-fill totality: parse_in_content of an input with no token
\* (the empty text) returns a tree equal to create_default_params().
C6_EmptyInputGivesDefaults ==
    (pc = "parsed" /\ tokens = << >>) => params = create_default_params

\* a decode of the empty text has returned
C6_Witness == pc = "parsed" /\ origin = "text" /\ content = "" /\ tokens = << >>

\* C7: unknown-keyword tolerance: when no token of the input is a keyword of
\* the keyword map, every scan-loop iteration moves the cursor by exactly one
\* and leaves the tree at the defaults, nothing is raised, and the tree
\* returned equals create_default_params(); tokens that only start with a
\* keyword stem are treated the same way.
C7_UnknownKeywordTolerance ==
    [][ (pc = "scan" /\ NoKeywordToken) =>
            /\ params' = create_default_params
            /\ IF pos < Len(tokens)
               THEN pos' = pos + 1 /\ pc' = "scan"
               ELSE pos' = pos /\ pc' = "parsed" ]_vars

\* a decode has returned for an input of several tokens, none a keyword of the
\* map, one of which starts with a keyword stem
C7_Witness ==
    /\ pc = "parsed"
    /\ origin = "text"
    /\ Len(tokens) >= 2
    /\ NoKeywordToken
    /\ \E j \in 1..Len(tokens) : _is_keyword(tokens[j])

\* C8: Bool coercion: one token decoded into a Bool field gives true for true,
\* 1, yes, y, false for false, 0, no, n, and for any other token true exactly
\* when the token parses as a number that is not zero.
C8_BoolCoercion ==
    (origin = "text" /\ pc = "parsed" /\ Len(tokens) = 2 /\ tokens[1] = "RandSeedByTime") =>
        LET tok == tokens[2]
            claimed ==
                IF Lower(tok) \in {"true", "1", "yes", "y"} THEN TRUE
                ELSE IF Lower(tok) \in {"false", "0", "no", "n"} THEN FALSE
                ELSE IsFloatLiteral(tok) /\ FloatLiteralVal(tok) # PyFloat(0, 0)
        IN  params.runspecs.randomSeedByTime = PyBool(claimed)

\* C9: Int coercion: one token decoded into an Int field gives the integer of
\* an integer literal, else the truncation toward zero of the float the token
\* parses as, else 0.
C9_IntCoercion ==
    (origin = "text" /\ pc \in {"parsed", "parse_raised"}
        /\ Len(tokens) = 2 /\ tokens[1] = "CohortSize") =>
        /\ pc = "parsed"
        /\ params.runspecs.numCohorts =
              PyInt(IF IsIntLiteral(tokens[2]) THEN IntLiteralVal(tokens[2])
                    ELSE IF IsFloatLiteral(tokens[2]) /\ FloatLiteralVal(tokens[2]).k = "fin"
                         THEN TruncFloat(FloatLiteralVal(tokens[2]))
                    ELSE 0)

\* C10: truncated input is default-filled: when the tokens end before a
\* dispatched field has all its values, the elements read hold the decoded
\* values and every other element keeps its default; a scalar whose keyword
\* is the last token keeps its default.
C10_TruncatedInputDefaultFilled ==
    (origin = "text" /\ pc = "parsed") =>
        /\ (Len(tokens) = 2 /\ tokens[1] = "LogOIHistwithCD4") =>
              params = [create_default_params EXCEPT
                  !.runspecs.CD4BoundsForOIHistoryLogging.l[1] = _read_float(tokens, 1).val]
        /\ (Len(tokens) = 2 /\ tokens[1] = "InitHVL") =>
              params = [create_default_params EXCEPT
                  !.cohort.initialHVLDistribution.l[1].l[1] = _read_float(tokens, 1).val]
        /\ (Len(tokens) = 1 /\ tokens[1] \in ScalarKeywords) =>
              params = create_default_params

\* C11: emission order is fixed: every encoding has the CohortSize line before
\* the DiscFactor line, and the sequence of keywords (the first token of each
\* emitted line) is the same for every tree, whatever the field values are
C11_EmissionOrderFixed ==
    (origin = "tree" /\ pc = "text") =>
        LET First(line) == LET toks == SplitWhitespace(line)
                           IN  IF toks = << >> THEN "" ELSE toks[1]
            Keywords(text) == LET lines == SplitLines(text)
                              IN  [j \in 1..Len(lines) |-> First(lines[j])]
            emitted == Keywords(text1)
        IN  /\ \E i, j \in 1..Len(emitted) :
                  i < j /\ emitted[i] = "CohortSize" /\ emitted[j] = "DiscFactor"
            /\ emitted = Keywords(generate(create_default_params).text)

C13_TreeTotality ==
    pc \in { "scan", "parsed" } =>
        /\ DOMAIN params = Sections
        /\ \A sec \in Sections : DOMAIN params[sec] = FieldsOf(sec)

C13_Witness ==
    /\ pc = "parsed" /\ Len(tokens) >= 1
    /\ tokens[1] \in DOMAIN KEYWORD_MAP
    /\ KEYWORD_MAP[tokens[1]][2] \notin FieldsOf(KEYWORD_MAP[tokens[1]][1])
    /\ params # create_default_params

C15_CommentStripping ==
    (origin = "text" /\ pc = "parsed") =>
        \A c \in CommentCases :
            content = c.pre \o c.marker \o c.post \o c.next =>
                /\ tokens = SplitWhitespace(c.pre) \o SplitWhitespace(c.next)
                /\ params.runspecs.numCohorts = create_default_params.runspecs.numCohorts

\* C16: whitespace tolerance: comment-free texts with the same sequence of
\* whitespace-separated tokens decode to equal trees, whichever of tab, space
\* and line break separates the tokens and however a field's values are
\* spread over lines
C16_WhitespaceTolerance ==
    (origin = "text" /\ pc = "parsed" /\ content \in LayoutTexts) =>
        /\ tokens = LayoutTokens
        /\ \A sep \in Separators :
              /\ parse_content(Join(LayoutTokens, sep)).exc = ""
              /\ parse_content(Join(LayoutTokens, sep)).params = params

C16_Witness ==
    /\ origin = "text" /\ pc = "parsed"
    /\ content \in LayoutTexts
    /\ Contains(content, "2.5\r\n1e3") /\ Contains(content, "\t")
    /\ params.runspecs.CD4BoundsForOIHistoryLogging = PyList(<< PyFloat(25, -1), PyFloat(1000, 0) >>)
    /\ params.runspecs.numCohorts = PyInt(2)

\* C17: encoder and decoder stay in step: in the decode of a text the encoder
\* produced, the value tokens a dispatched keyword consumes hold no keyword of
\* the keyword map and no stratum label the encoder writes as a sub-key
\* (CD4vhi, HVLvhi, ...)
C17_EncoderDecoderInStep ==
    (origin = "tree" /\ pc = "scan" /\ pos < Len(tokens)) =>
        (tokens[pos + 1] \in DOMAIN KEYWORD_MAP =>
            LET labels == { CD4_STRATA_STRS[k] : k \in DOMAIN CD4_STRATA_STRS }
                          \cup { HVL_STRATA_STRS[k] : k \in DOMAIN HVL_STRATA_STRS }
                after == _parse_keyword_section(tokens[pos + 1], params, tokens, pos).pos
            IN  \A i \in (pos + 2)..after :
                    tokens[i] \notin DOMAIN KEYWORD_MAP /\ tokens[i] \notin labels)

\* C18: exact consumption: when a token equal to a keyword of the keyword map
\* is dispatched and enough tokens remain, the cursor moves past the keyword
\* and past exactly N further tokens, N being the number of leaf elements of
\* the mapped field (1 for a scalar or one element of a vector), whatever the
\* tokens are
C18_ExactConsumption ==
    (pc = "scan" /\ pos < Len(tokens)) =>
        (tokens[pos + 1] \in DOMAIN KEYWORD_MAP =>
            LET tab == KEYWORD_MAP[tokens[pos + 1]][1]
                path == KEYWORD_MAP[tokens[pos + 1]][2]
                field == IF Contains(path, "[") THEN Before(path, "[") ELSE path
                RECURSIVE Leaves(_), LeavesFrom(_, _)
                Leaves(v) == IF v.t = "list" THEN LeavesFrom(v.l, 1) ELSE 1
                LeavesFrom(l, i) == IF i > Len(l) THEN 0
                                    ELSE Leaves(l[i]) + LeavesFrom(l, i + 1)
                N == IF Contains(path, "[") THEN 1 ELSE Leaves(params[tab][path])
                after == _parse_keyword_section(tokens[pos + 1], params, tokens, pos).pos
            IN  (field \in DOMAIN params[tab] /\ pos + 1 + N <= Len(tokens)) =>
                    after = pos + 1 + N)

\* C19: keyword map consistency: every entry of KEYWORD_MAP names a section
\* and a field the tree has, so a keyword of the map that is dispatched with
\* a value token after it reads that token into the field
C19_KeywordMapConsistency ==
    (pc = "scan" /\ pos + 1 < Len(tokens)) =>
        (tokens[pos + 1] \in DOMAIN KEYWORD_MAP =>
            /\ KEYWORD_MAP[tokens[pos + 1]][1] \in DOMAIN params
            /\ KEYWORD_MAP[tokens[pos + 1]][2] \in DOMAIN params[KEYWORD_MAP[tokens[pos + 1]][1]]
            /\ _parse_keyword_section(tokens[pos + 1], params, tokens, pos).pos > pos + 1)

\* C20: composite keywords are decoded: when the scan reaches the primary
\* keyword of a double-keyword line (TransmissionRateOnART Acute v1 .. v6),
\* the decoder consumes the sub-key and the values of the line, and the
\* values are in the field of the tree when the decode returns
C20_CompositeKeywordsDecoded ==
    /\ (pc = "scan" /\ pos < Len(tokens)) =>
          (tokens[pos + 1] \in { "TransmissionRateOnART", "TransmissionRateOffART" } =>
              /\ _is_keyword(tokens[pos + 1])
              /\ _parse_keyword_section(tokens[pos + 1], params, tokens, pos).pos
                     = pos + 2 + CD4_NUM_STRATA)
    /\ (origin = "text" /\ pc = "parsed" /\ content \in CompositeTexts) =>
          \/ params.cohort.transmRateOnARTAcute # create_default_params.cohort.transmRateOnARTAcute
          \/ params.cohort.transmRateOffARTAcute # create_default_params.cohort.transmRateOffARTAcute

\* C21: untouched fields keep their default: in the tree a decode returns,
\* every field none of whose keywords occurs as a token of the input has its
\* value from create_default_params(); and the dispatch of one keyword changes
\* no field other than the one the keyword maps to
C21_UntouchedFieldsKeepDefault ==
    /\ pc = "parsed" =>
          LET named == { KEYWORD_MAP[tokens[j]] :
                           j \in { i \in 1..Len(tokens) : tokens[i] \in DOMAIN KEYWORD_MAP } }
          IN  \A sec \in Sections : \A fld \in FieldsOf(sec) :
                  << sec, fld >> \notin named =>
                      params[sec][fld] = create_default_params[sec][fld]
    /\ (pc = "scan" /\ pos < Len(tokens) /\ _is_keyword(tokens[pos + 1])) =>
          LET after == _parse_keyword_section(tokens[pos + 1], params, tokens, pos).params
          IN  \A sec \in Sections : \A fld \in FieldsOf(sec) :
                  after[sec][fld] # params[sec][fld] =>
                      /\ tokens[pos + 1] \in DOMAIN KEYWORD_MAP
                      /\ KEYWORD_MAP[tokens[pos + 1]] = << sec, fld >>

\* a decode that read two fields has returned: both hold the decoded values
\* and a field of the same section whose keyword is not in the input is at
\* its default
C21_Witness ==
    /\ origin = "text" /\ pc = "parsed"
    /\ tokens = LayoutTokens
    /\ params.runspecs.numCohorts = PyInt(2)
    /\ params.runspecs.CD4BoundsForOIHistoryLogging # create_default_params.runspecs.CD4BoundsForOIHistoryLogging
    /\ params.runspecs.discountFactor = create_default_params.runspecs.discountFactor

\* C22: coercion errors are local: when the value token of a dispatched Bool,
\* Int or Float field cannot be coerced to the field's type, the dispatch
\* raises nothing, stores false, 0 or 0.0, moves the cursor past exactly that
\* one token, and the rest of the decode gives the tree it gives when the
\* token is the valid literal 0
C22_CoercionErrorsLocal ==
    (origin = "text" /\ pc = "scan" /\ pos + 1 < Len(tokens)) =>
        (tokens[pos + 1] \in ScalarKeywords =>
            LET kw == tokens[pos + 1]
                tok == tokens[pos + 2]
                old == FieldOf(params, kw)
                finite == IsFloatLiteral(tok) /\ FloatLiteralVal(tok).k = "fin"
                coercible ==
                    CASE old.t = "bool" ->
                            \/ Lower(tok) \in { "true", "1", "yes", "y", "false", "0", "no", "n" }
                            \/ IsIntLiteral(tok)
                      [] old.t = "int" -> IsIntLiteral(tok) \/ finite
                      [] old.t = "float" -> IsFloatLiteral(tok)
                      [] old.t = "str" -> TRUE
                zero == CASE old.t = "bool" -> PyBool(FALSE)
                          [] old.t = "int" -> PyInt(0)
                          [] old.t = "float" -> PyFloat(0, 0)
                          [] old.t = "str" -> old
                r == _parse_keyword_section(kw, params, tokens, pos)
            IN  ~coercible =>
                    /\ r.exc = ""
                    /\ r.pos = pos + 2
                    /\ r.params = [params EXCEPT ![KEYWORD_MAP[kw][1]][KEYWORD_MAP[kw][2]] = zero]
                    /\ ScanLoop(params, tokens, pos)
                           = ScanLoop(params, [tokens EXCEPT ![pos + 2] = "0"], pos))

\* C23: sections are emitted in schema order: the sections generate emits are
\* the sections of the schema, each section's lines are emitted contiguously
\* (by one run of consecutive calls), and a section that comes before another
\* in the schema is emitted before it
C23_SectionsInSchemaOrder ==
    (origin = "tree" /\ pc = "text") =>
        LET emitted == [j \in 1..Len(GenerateCalls) |-> GenerateCalls[j][2]]
            At(sec) == { j \in 1..Len(emitted) : emitted[j] = sec }
            Place(sec) == CHOOSE j \in At(sec) : \A k \in At(sec) : j <= k
        IN  /\ { emitted[j] : j \in 1..Len(emitted) }
                   = { SchemaSections[i] : i \in 1..Len(SchemaSections) }
            /\ \A i, j \in 1..Len(emitted) :
                   (i < j /\ emitted[i] = emitted[j]) =>
                       \A k \in i..j : emitted[k] = emitted[i]
            /\ \A i, j \in 1..Len(SchemaSections) :
                   i < j => Place(SchemaSections[i]) < Place(SchemaSections[j])

\* C24: decoding terminates: every iteration of the scan loop moves the cursor
\* forward by at least one, no step moves it back or past the number of
\* tokens (so the loop runs at most that many iterations), and the loop is
\* left only by the return of parse_content, with the cursor at the number of
\* tokens
C24_DecodingTerminates ==
    [][pc = "scan" =>
          /\ pos' >= pos
          /\ pc' = "scan" => (pos' > pos /\ pos' <= Len(tokens))
          /\ pc' # "scan" => (pc' = "parsed" /\ pos' = Len(tokens))]_vars

\* C25: cursor bounds: in every state of a decode 0 <= pos <= len(tokens), and
\* no token is read at an index that is not below len(tokens) (such a read
\* raises IndexError), also when the tokens end before a field has all its
\* values
C25_CursorBounds ==
    /\ pos >= 0
    /\ pos <= Len(tokens)
    /\ exc # "IndexError"
    /\ (pc = "scan" /\ pos < Len(tokens) /\ _is_keyword(tokens[pos + 1])) =>
          LET r == _parse_keyword_section(tokens[pos + 1], params, tokens, pos)
          IN  r.pos > pos /\ r.pos <= Len(tokens) /\ r.exc # "IndexError"

\* a decode has returned whose last keyword names the 6 x 7 matrix and is
\* followed by one value token only: one element was read and the cursor
\* stopped at the end of the tokens
C25_Witness ==
    /\ origin = "text" /\ pc = "parsed"
    /\ tokens = << "InitHVL", "2.5" >>
    /\ pos = Len(tokens)
    /\ params.cohort.initialHVLDistribution.l[1].l[1] = PyFloat(25, -1)
    /\ params.cohort.initialHVLDistribution.l[1].l[2] = PyFloat(0, 0)

\* C26: decoding preserves shape and type: in the tree a decode returns, every
\* field has the container nesting and the list lengths of its default and
\* every leaf the type (bool, int, float or string) of the default leaf, and
\* the encoder accepts the tree: generate of it returns a text
C26_DecodePreservesShape ==
    pc = "parsed" =>
        LET RECURSIVE SameShape(_, _)
            SameShape(a, b) ==
                /\ a.t = b.t
                /\ a.t = "list" =>
                      /\ Len(a.l) = Len(b.l)
                      /\ \A i \in 1..Len(a.l) : SameShape(a.l[i], b.l[i])
        IN  /\ DOMAIN params = Sections
            /\ \A sec \in Sections :
                  /\ DOMAIN params[sec] = FieldsOf(sec)
                  /\ \A fld \in FieldsOf(sec) :
                        SameShape(params[sec][fld], create_default_params[sec][fld])
            /\ generate(params).ok

\* C27: the codec keeps no state between calls: a second parse_content call on
\* a used InputParser, after the first call returned or raised, returns the
\* tree a new parser returns for the second text; the tree the first call
\* returned stays as it was returned while and after the second call runs;
\* and a further generate on a used InputGenerator returns the text a new
\* generator returns, with no line of the previous call in it
C27_CodecKeepsNoState ==
    /\ (pc = "parsed" /\ obj > 1) => params = parse_content(content).params
    /\ \A j \in DOMAIN returned :
           returned[j].tree = parse_content(returned[j].content).params
    /\ pc = "generated_twice" => text2 = generate(params).text

\* a second call on a parser has returned: the first call had decoded a field
\* that the second text does not name, the second call decoded another field
C27_Witness ==
    /\ pc = "parsed" /\ obj > 1 /\ returned # << >>
    /\ returned[1].content = "Runset a // CohortSize 5\nDiscFactor 2.5"
    /\ returned[1].tree.runspecs.discountFactor = PyFloat(25, -1)
    /\ content = "CohortSize 9"
    /\ params.runspecs.numCohorts = PyInt(9)
    /\ params.runspecs.discountFactor = create_default_params.runspecs.discountFactor

\* C28: after any sequence of set_params, reset_params and import_in_file
\* requests, current_params contains every section of create_default_params()
\* as a mapping that holds every field of that section.
C28_SessionTreeTotal ==
    \A sec \in Sections :
        /\ sec \in DOMAIN current_params
        /\ IsDict(current_params[sec])
        /\ FieldsOf(sec) \subseteq DOMAIN current_params[sec]

\* C29: an import_in_file request without a file, with an empty filename, or
\* with content whose decoding raises is answered with status 400 and
\* success false and leaves current_params as it was before the request;
\* an import changes current_params only to the tree of a decoding that read
\* all the tokens without raising.
C29_FailedImportKeepsSession ==
    [][request'.route = "import_in_file" =>
          LET upload == request'.body
              decoded == parse_content(upload.content)
              failed == upload.file # "named" \/ decoded.exc # ""
          IN  /\ failed =>
                    /\ response' = [status |-> 400, success |-> FALSE]
                    /\ current_params' = current_params
              /\ current_params' # current_params =>
                    /\ ~failed
                    /\ decoded.pos = Len(_tokenize(upload.content))
                    /\ current_params' = decoded.params
                    /\ response'.success]_vars

\* a session changed by set_params, then an import whose decoding raised
\* after it had assigned a field: the answer is 400 and the session tree is
\* neither the default tree nor the tree of the parser
C29_Witness ==
    /\ request.route = "import_in_file"
    /\ request.body.file = "named"
    /\ parse_content(request.body.content).exc # ""
    /\ parse_content(request.body.content).params # create_default_params
    /\ response = [status |-> 400, success |-> FALSE]
    /\ current_params # create_default_params
    /\ current_params # parse_content(request.body.content).params

\* C30: ModelRunner.run writes the input file and starts the executable only
\* after compile_if_needed has returned True; when it returned False, run
\* returns success False with the compile message, no input file written
\* and no engine started; success is True only after the engine exited with
\* return code 0.
C30_CompileBeforeRun ==
    /\ run.pc \in { "write", "invoke", "collect" } => run.compile_ok
    /\ run.written => run.compile_ok
    /\ run.invoked => (run.written /\ run.compile_ok)
    /\ (run.pc = "returned" /\ ~run.compile_ok) =>
          /\ ~run.success
          /\ run.compile_msg # ""
          /\ run.message = run.compile_msg
          /\ ~run.written
          /\ ~run.invoked
    /\ run.success => (run.invoked /\ run.returncode = "zero")

\* a run that returned because the compilation failed
C30_Witness ==
    /\ run.pc = "returned"
    /\ ~run.compile_ok
    /\ run.compile_msg = "Compilation failed"
    /\ ~run.success

====
